---- MODULE Spec2Model ----
(***************************************************************************)
(* Model of byteps/_keras/__init__.py: the Keras _DistributedOptimizer     *)
(* wrapper, its two gradient aggregators (_push_pull_tf, _push_pull_xla)   *)
(* and apply_gradients.  One wrapper instance, one thread of control.      *)
(* Every collaborator call (push_pull, push_pull_xla_handle_out_v2,        *)
(* _my_barrier_handle_out, _sync_tensors_handle_out_v2, decompress) is one *)
(* step, so that call order and failures in the middle of a request are    *)
(* states of the model.                                                    *)
(***************************************************************************)
EXTENDS Integers, Sequences, FiniteSets, TLC

\* ---------------------------------------------------------------- bounds
MaxLen == 3        \* longest gradient list handed to the aggregator
MaxSize == 2       \* largest worker-group size bps.size() reports
MaxRequests == 2   \* aggregation calls a counting fake client is run for

VARIABLES
    enable_xla,             \* module attribute, '0' or '1'
    _push_pull,             \* self._push_pull: "tf" or "xla"
    _sparse_as_dense,       \* self._sparse_as_dense
    _aggregated_gradients,  \* self._aggregated_gradients
    bps_size,               \* what bps.size() returns in this run
    pc,                     \* position of the single thread of control
    call,                   \* the API method most recently entered
    outcome,                \* "none" | "running" | "returned" | "raised"
    error,                  \* the exception of a raised call, "" otherwise
    result,                 \* the list returned by the aggregator
    gradients,              \* argument of the aggregator
    grads,                  \* _push_pull_xla: grads after line 89
    averaged_gradients,     \* _push_pull_tf: the list under construction
    new_grads_names_and_handles_and_ctxes,  \* _push_pull_xla line 92
    avg_grads, grad_names, handles, ctxes,  \* _push_pull_xla line 102
    barrier_handle,         \* _push_pull_xla line 108
    acc,                    \* the list comprehension under construction
    calls,                  \* collaborator calls issued by the current request
    counting,               \* the collective client is a fake that counts
    nLaunch,                \* counting fake: collective launches it received
    nBarrier,               \* counting fake: barrier calls it received
    requests,               \* counting fake: aggregation calls made
    sameInput,              \* counting fake: they all had the same list
    completed,              \* async op handles the engine has completed
    inner_applied           \* the base optimizer's apply_gradients ran in the
                            \* most recent API call

config == <<enable_xla, _push_pull, _sparse_as_dense, bps_size>>
control == <<pc, call, outcome, error, result>>
tfLocals == <<averaged_gradients>>
xlaLocals == <<grads, new_grads_names_and_handles_and_ctxes, avg_grads,
               grad_names, handles, ctxes, barrier_handle, acc>>
counters == <<counting, nLaunch, nBarrier, requests, sameInput>>
vars == <<config, _aggregated_gradients, control, gradients, tfLocals,
          xlaLocals, calls, counters, completed, inner_applied>>

\* --------------------------------------------------------------- tensors
\* A tensor is a record of its provenance: the parameter it is the gradient
\* of, its form, and what the collaborators have done to it.
None ==
    [form |-> "none", param |-> 0, conv |-> FALSE, stage |-> "local",
     idx |-> 0, name |-> 0, bidx |-> 0, barrier |-> {}, ctx |-> 0]

Grad(form, p) == [None EXCEPT !.form = form, !.param = p]

\* the gradient lists a backward pass can produce: one entry per parameter,
\* each absent, dense or tf.IndexedSlices
GradAt(i) == {None, Grad("dense", i), Grad("sparse", i)}

GradLists ==
    UNION {{gs \in [1..n -> UNION {GradAt(i) : i \in 1..MaxLen}] :
              \A i \in 1..n : gs[i] \in GradAt(i)} : n \in 0..MaxLen}

\* tf.convert_to_tensor on an IndexedSlices
convert_to_tensor(grad) == [grad EXCEPT !.form = "dense", !.conv = TRUE]

\* bps.push_pull: the averaged tensor of its argument
push_pull(grad) == [grad EXCEPT !.stage = "averaged"]

\* push_pull_xla_handle_out_v2: (tensor, name, handle, context), the name,
\* the handle and the context being those of launch index idx
push_pull_xla_handle_out_v2(grad, idx) ==
    [isNone |-> FALSE,
     items |-> <<[grad EXCEPT !.stage = "pending", !.idx = idx], idx, idx, idx>>]

NoneEntry == [isNone |-> TRUE, items |-> <<>>]

\* _my_barrier_handle_out: one handle standing for all of hs
_my_barrier_handle_out(hs) == {hs[k] : k \in 1..Len(hs)}

\* _sync_tensors_handle_out_v2: the tensor gated by the barrier handle
_sync_tensors_handle_out_v2(tensor, bh, tensor_name, idx) ==
    [tensor EXCEPT !.stage = "synced", !.barrier = bh,
                   !.name = tensor_name, !.bidx = idx]

\* self._compression.decompress
decompress(item, ctx) == [item EXCEPT !.stage = "decoded", !.ctx = ctx]

\* a tensor can be read once what it waits for has completed
\* (idx = 0: the tensor is the result of no async op)
Readable(t) ==
    /\ t.idx # 0 => t.idx \in completed
    /\ t.barrier \subseteq completed

\* ----------------------------------------------------------- call records
Call(op, t, idx, n) ==
    [op |-> op, param |-> t.param, form |-> t.form, idx |-> idx, n |-> n,
     ok |-> TRUE]

\* the record of a call that raised
Failed(c) == [c EXCEPT !.ok = FALSE]

\* ------------------------------------------------------------ pure parts
\* line 66-68
DensifyTf(grad) ==
    IF _sparse_as_dense /\ grad.form = "sparse"
    THEN convert_to_tensor(grad) ELSE grad

\* variant: the sparse-as-dense flag is not consulted
DensifyXlaAlways(gs) ==
    [i \in 1..Len(gs) |->
        IF gs[i].form # "none" /\ gs[i].form = "sparse"
        THEN convert_to_tensor(gs[i]) ELSE gs[i]]

\* line 88-91
DensifyXla(gs) ==
    IF _sparse_as_dense
    THEN [i \in 1..Len(gs) |->
            IF gs[i].form # "none" /\ gs[i].form = "sparse"
            THEN convert_to_tensor(gs[i]) ELSE gs[i]]
    ELSE gs

Min(S) == CHOOSE x \in S : \A y \in S : x <= y

\* zip(*entries) for entries that are all tuples: row k holds the k-th item
\* of every entry; no entry, no row
Zip(entries) ==
    IF Len(entries) = 0 THEN <<>>
    ELSE [k \in 1..Min({Len(entries[j].items) : j \in 1..Len(entries)}) |->
            [j \in 1..Len(entries) |-> entries[j].items[k]]]

\* ------------------------------------------------------------------ Init
\* the state after create_distributed_optimizer: __init__, lines 30-43
Constructed ==
    /\ enable_xla \in {"0", "1"}
    /\ _push_pull = IF enable_xla = "1" THEN "xla" ELSE "tf"
    /\ _sparse_as_dense \in BOOLEAN
    /\ _aggregated_gradients = FALSE
    /\ bps_size \in 1..MaxSize
    /\ pc = "idle" /\ call = "none" /\ outcome = "none" /\ error = ""
    /\ result = <<>> /\ gradients = <<>> /\ grads = <<>>
    /\ averaged_gradients = <<>>
    /\ new_grads_names_and_handles_and_ctxes = <<>>
    /\ avg_grads = <<>> /\ grad_names = <<>> /\ handles = <<>> /\ ctxes = <<>>
    /\ barrier_handle = {} /\ acc = <<>>
    /\ calls = <<>> /\ completed = {} /\ inner_applied = FALSE
    /\ nLaunch = 0 /\ nBarrier = 0 /\ requests = 0 /\ sameInput = FALSE

\* the collaborators are the real ones: nothing is counted
Init == Constructed /\ counting = FALSE

\* the collective client is a counting fake, run for MaxRequests requests
InitCounted == Constructed /\ counting = TRUE

\* --------------------------------------------------------------- helpers
Return(res) ==
    /\ pc' = "idle" /\ outcome' = "returned" /\ error' = "" /\ result' = res

Raise(e) ==
    /\ pc' = "idle" /\ outcome' = "raised" /\ error' = e /\ result' = <<>>

ResetLocals ==
    /\ averaged_gradients' = <<>>
    /\ new_grads_names_and_handles_and_ctxes' = <<>>
    /\ avg_grads' = <<>> /\ grad_names' = <<>> /\ handles' = <<>>
    /\ ctxes' = <<>> /\ barrier_handle' = {} /\ acc' = <<>>

\* ------------------------------------------------------- _push_pull_tf
\* variant: the entry that forgets to record that aggregation occurred
_push_pull_tf_NoFlag(gs) ==
    /\ UNCHANGED _aggregated_gradients
    /\ grads' = <<>>
    /\ IF bps_size > 1
       THEN /\ pc' = "tf_loop" /\ outcome' = "running" /\ error' = ""
            /\ result' = <<>>
       ELSE Return(gs)

\* lines 59-61 and 77-78: entry, flag, group-size test
_push_pull_tf(gs) ==
    /\ _aggregated_gradients' = TRUE
    /\ grads' = <<>>
    /\ IF bps_size > 1
       THEN /\ pc' = "tf_loop" /\ outcome' = "running" /\ error' = ""
            /\ result' = <<>>
       ELSE Return(gs)

\* variant: the loop walks the list backwards
TfGradReversed == gradients[Len(gradients) - Len(averaged_gradients)]

\* line 64: the element the loop is at
TfGrad == gradients[Len(averaged_gradients) + 1]

\* variant: a missing gradient is replaced by a zero tensor
TfAveragedZeroFill(grad) ==
    IF grad.form # "none" THEN push_pull(DensifyTf(grad))
    ELSE Grad("dense", 0)

\* lines 65-75: what one iteration appends for grad
TfAveraged(grad) ==
    IF grad.form # "none" THEN push_pull(DensifyTf(grad)) ELSE None

\* variant: a handler around line 69 puts None in place of the result
TfRaiseSwallowed ==
    /\ averaged_gradients' = Append(averaged_gradients, None)
    /\ UNCHANGED control

\* line 69: nothing catches what bps.push_pull raises; it leaves the method
TfRaise ==
    /\ Raise("CollectiveFailure")
    /\ UNCHANGED <<call, averaged_gradients>>

\* lines 64-75: one iteration of the loop; bps.push_pull may raise
TfStep ==
    /\ pc = "tf_loop"
    /\ Len(averaged_gradients) < Len(gradients)
    /\ LET grad == TfGrad IN
       IF grad.form # "none"
       THEN LET c == Call("push_pull", DensifyTf(grad), 0, 0) IN
            /\ nLaunch' = nLaunch + (IF counting THEN 1 ELSE 0)
            /\ \/ /\ calls' = Append(calls, c)
                  /\ averaged_gradients' =
                        Append(averaged_gradients, TfAveraged(grad))
                  /\ UNCHANGED control
               \/ /\ ~counting
                  /\ calls' = Append(calls, Failed(c))
                  /\ TfRaise
       ELSE /\ averaged_gradients' =
                  Append(averaged_gradients, TfAveraged(grad))
            /\ UNCHANGED <<calls, nLaunch, control>>
    /\ UNCHANGED <<config, _aggregated_gradients, gradients, xlaLocals,
                   counting, nBarrier, requests, sameInput, completed,
                   inner_applied>>

\* line 76
TfReturn ==
    /\ pc = "tf_loop"
    /\ Len(averaged_gradients) = Len(gradients)
    /\ Return(averaged_gradients)
    /\ UNCHANGED <<config, _aggregated_gradients, call, gradients, tfLocals,
                   xlaLocals, calls, counters, completed, inner_applied>>

\* ------------------------------------------------------ _push_pull_xla
\* variant: the flag is set after the group-size test, on the path that
\* aggregates
_push_pull_xla_FlagLate(gs) ==
    /\ IF bps_size <= 1
       THEN /\ Return(gs)
            /\ grads' = gs
            /\ UNCHANGED _aggregated_gradients
       ELSE /\ pc' = "xla_launch" /\ outcome' = "running" /\ error' = ""
            /\ result' = <<>>
            /\ grads' = DensifyXla(gs)
            /\ _aggregated_gradients' = TRUE

\* variant: the group-size test is off by one
_push_pull_xla_OffByOne(gs) ==
    /\ _aggregated_gradients' = TRUE
    /\ IF bps_size < 1
       THEN /\ Return(gs)
            /\ grads' = gs
       ELSE /\ pc' = "xla_launch" /\ outcome' = "running" /\ error' = ""
            /\ result' = <<>>
            /\ grads' = DensifyXla(gs)

\* lines 83-91: flag, group-size test, densification
_push_pull_xla(gs) ==
    /\ _aggregated_gradients' = TRUE
    /\ IF bps_size <= 1
       THEN /\ Return(gs)
            /\ grads' = gs
       ELSE /\ pc' = "xla_launch" /\ outcome' = "running" /\ error' = ""
            /\ result' = <<>>
            /\ grads' = DensifyXla(gs)

\* variant: the comprehension walks the list backwards
XlaGradReversed(idx) == grads[Len(grads) + 1 - idx]

\* line 98: enumerate(grads, 1) pairs idx with the idx-th element
XlaGrad(idx) == grads[idx]

\* variant: a handler around line 93 goes on to the barrier with the
\* launches made so far
XlaRaiseFormsBarrier ==
    /\ pc' = "xla_barrier"
    /\ UNCHANGED <<call, outcome, error, result,
                   new_grads_names_and_handles_and_ctxes>>

\* line 93: nothing catches what push_pull_xla_handle_out_v2 raises
XlaRaise ==
    /\ Raise("CollectiveFailure")
    /\ UNCHANGED <<call, new_grads_names_and_handles_and_ctxes>>

\* lines 92-98: one element of the launch comprehension;
\* push_pull_xla_handle_out_v2 may raise
XlaLaunch ==
    /\ pc = "xla_launch"
    /\ Len(new_grads_names_and_handles_and_ctxes) < Len(grads)
    /\ LET idx == Len(new_grads_names_and_handles_and_ctxes) + 1
           grad == XlaGrad(idx) IN
       IF grad.form # "none"
       THEN LET c == Call("push_pull_xla", grad, idx, 0) IN
            /\ nLaunch' = nLaunch + (IF counting THEN 1 ELSE 0)
            /\ \/ /\ calls' = Append(calls, c)
                  /\ new_grads_names_and_handles_and_ctxes' =
                        Append(new_grads_names_and_handles_and_ctxes,
                               push_pull_xla_handle_out_v2(grad, idx))
                  /\ UNCHANGED control
               \/ /\ ~counting
                  /\ calls' = Append(calls, Failed(c))
                  /\ XlaRaise
       ELSE /\ new_grads_names_and_handles_and_ctxes' =
                  Append(new_grads_names_and_handles_and_ctxes, NoneEntry)
            /\ UNCHANGED <<calls, nLaunch, control>>
    /\ UNCHANGED <<config, _aggregated_gradients, gradients, tfLocals, grads,
                   avg_grads, grad_names, handles, ctxes, barrier_handle, acc,
                   counting, nBarrier, requests, sameInput, completed,
                   inner_applied>>

\* variant: the barrier is formed as soon as one op has been launched
LaunchCompleteEarly == Len(new_grads_names_and_handles_and_ctxes) >= 1

\* lines 92-98: the comprehension has an element for every element of grads
LaunchComplete == Len(new_grads_names_and_handles_and_ctxes) = Len(grads)

\* variant: the None entries are filtered out before the zip
IsTuple(e) == ~e.isNone
ZipArgsFiltered == SelectSeq(new_grads_names_and_handles_and_ctxes, IsTuple)

\* line 101: the starred argument of zip
ZipArgs == new_grads_names_and_handles_and_ctxes

\* lines 101-106: zip(*...) and the four indexings
XlaZip ==
    /\ pc = "xla_launch"
    /\ LaunchComplete
    /\ LET entries == ZipArgs IN
       IF \E j \in 1..Len(entries) : entries[j].isNone
       THEN /\ Raise("TypeError")
            /\ UNCHANGED <<call, avg_grads, grad_names, handles, ctxes>>
       ELSE LET rows == Zip(entries) IN
            IF Len(rows) < 4
            THEN /\ Raise("IndexError")
                 /\ UNCHANGED <<call, avg_grads, grad_names, handles, ctxes>>
            ELSE /\ avg_grads' = rows[1]
                 /\ grad_names' = rows[2]
                 /\ handles' = rows[3]
                 /\ ctxes' = rows[4]
                 /\ pc' = "xla_barrier"
                 /\ UNCHANGED <<call, outcome, error, result>>
    /\ UNCHANGED <<config, _aggregated_gradients, gradients, tfLocals, grads,
                   new_grads_names_and_handles_and_ctxes, barrier_handle, acc,
                   calls, counters, completed, inner_applied>>

\* line 108; _my_barrier_handle_out may raise
XlaBarrier ==
    /\ pc = "xla_barrier"
    /\ nBarrier' = nBarrier + (IF counting THEN 1 ELSE 0)
    /\ \/ /\ calls' = Append(calls, Call("barrier", None, 0, Len(handles)))
          /\ barrier_handle' = _my_barrier_handle_out(handles)
          /\ pc' = "xla_bind"
          /\ UNCHANGED <<call, outcome, error, result>>
       \/ /\ ~counting
          /\ calls' = Append(calls,
                             Failed(Call("barrier", None, 0, Len(handles))))
          /\ Raise("CollectiveFailure")
          /\ UNCHANGED <<call, barrier_handle>>
    /\ UNCHANGED <<config, _aggregated_gradients, gradients, tfLocals, grads,
                   new_grads_names_and_handles_and_ctxes, avg_grads,
                   grad_names, handles, ctxes, acc, counting, nLaunch,
                   requests, sameInput, completed, inner_applied>>

\* variant: the result tensor is handed on without being bound to the barrier
XlaSyncedUnbound(idx) == avg_grads[idx]

\* line 109: the element of the bind comprehension for idx, (tensor, item)
\* being the idx-th pair of zip(avg_grads, grad_names)
XlaSynced(idx) ==
    _sync_tensors_handle_out_v2(avg_grads[idx], barrier_handle,
                                grad_names[idx], idx)

\* variant: the contexts are paired with the tensors in the opposite order
XlaDecodedMispaired(k) == decompress(avg_grads[k], ctxes[Len(ctxes) + 1 - k])

\* line 110: the k-th element of the decompress comprehension
XlaDecoded(k) == decompress(avg_grads[k], ctxes[k])

\* line 109: one element of the bind comprehension; avg_grads is rebound
\* when the comprehension is complete
XlaBind ==
    /\ pc = "xla_bind"
    /\ LET idx == Len(acc) + 1
           synced == Append(acc, XlaSynced(idx)) IN
       /\ calls' = Append(calls, Call("sync", avg_grads[idx], idx, 0))
       /\ IF Len(synced) = Len(avg_grads)
          THEN avg_grads' = synced /\ acc' = <<>> /\ pc' = "xla_decompress"
          ELSE acc' = synced /\ UNCHANGED <<avg_grads, pc>>
    /\ UNCHANGED <<config, _aggregated_gradients, call, outcome, error, result,
                   gradients, tfLocals, grads,
                   new_grads_names_and_handles_and_ctxes, grad_names, handles,
                   ctxes, barrier_handle, counters, completed, inner_applied>>

\* line 110: one element of the decompress comprehension
XlaDecompress ==
    /\ pc = "xla_decompress"
    /\ LET k == Len(acc) + 1
           decoded == Append(acc, XlaDecoded(k)) IN
       /\ calls' = Append(calls, Call("decompress", avg_grads[k], ctxes[k], 0))
       /\ IF Len(decoded) = Len(avg_grads)
          THEN avg_grads' = decoded /\ acc' = <<>> /\ pc' = "xla_return"
          ELSE acc' = decoded /\ UNCHANGED <<avg_grads, pc>>
    /\ UNCHANGED <<config, _aggregated_gradients, call, outcome, error, result,
                   gradients, tfLocals, grads,
                   new_grads_names_and_handles_and_ctxes, grad_names, handles,
                   ctxes, barrier_handle, counters, completed, inner_applied>>

\* line 111
XlaReturn ==
    /\ pc = "xla_return"
    /\ Return(avg_grads)
    /\ UNCHANGED <<config, _aggregated_gradients, call, gradients, tfLocals,
                   xlaLocals, calls, counters, completed, inner_applied>>

\* ------------------------------------------------------------ API calls
\* variant: the execution-mode flag is read again at every call
Dispatch_ReadsFlag(c, gs) ==
    /\ call' = c
    /\ gradients' = gs
    /\ requests' = requests + (IF counting THEN 1 ELSE 0)
    /\ sameInput' = (counting /\ (requests = 0 \/ (sameInput /\ gs = gradients)))
    /\ calls' = <<>>
    /\ completed' = {}
    /\ ResetLocals
    /\ IF enable_xla = "1" THEN _push_pull_xla(gs) ELSE _push_pull_tf(gs)
    /\ inner_applied' = FALSE
    /\ UNCHANGED <<config, counting, nLaunch, nBarrier>>

\* self._push_pull(gradients), lines 53 and 57: the aggregator chosen at
\* construction is entered with a fresh frame
Dispatch(c, gs) ==
    /\ call' = c
    /\ gradients' = gs
    /\ requests' = requests + (IF counting THEN 1 ELSE 0)
    /\ sameInput' = (counting /\ (requests = 0 \/ (sameInput /\ gs = gradients)))
    /\ calls' = <<>>
    /\ completed' = {}
    /\ ResetLocals
    /\ IF _push_pull = "xla" THEN _push_pull_xla(gs) ELSE _push_pull_tf(gs)
    /\ inner_applied' = FALSE
    /\ UNCHANGED <<config, counting, nLaunch, nBarrier>>

\* lines 45-53: the gradients are those the base optimizer computes
get_gradients ==
    /\ pc = "idle"
    /\ counting => requests < MaxRequests
    /\ \E gs \in GradLists : Dispatch("get_gradients", gs)

\* lines 55-57: the gradients are the first components of the pairs
_aggregate_gradients ==
    /\ pc = "idle"
    /\ counting => requests < MaxRequests
    /\ \E gs \in GradLists :
          LET grads_and_vars == [i \in 1..Len(gs) |-> <<gs[i], i>>] IN
          Dispatch("_aggregate_gradients",
                   [i \in 1..Len(grads_and_vars) |-> grads_and_vars[i][1]])

\* variant: the flag is a per-step flag, cleared by the update it permits
apply_gradients_ClearsFlag ==
    /\ pc = "idle"
    /\ call' = "apply_gradients"
    /\ IF ~_aggregated_gradients
       THEN /\ outcome' = "raised" /\ error' = "ConfigError"
            /\ inner_applied' = FALSE
       ELSE /\ inner_applied' = TRUE
            /\ outcome' = "returned" /\ error' = ""
    /\ _aggregated_gradients' = FALSE
    /\ UNCHANGED <<config, pc, result, gradients,
                   tfLocals, xlaLocals, calls, counters, completed>>

\* lines 113-119
apply_gradients ==
    /\ pc = "idle"
    /\ call' = "apply_gradients"
    /\ IF ~_aggregated_gradients
       THEN /\ outcome' = "raised" /\ error' = "ConfigError"
            /\ inner_applied' = FALSE
       ELSE /\ inner_applied' = TRUE
            /\ outcome' = "returned" /\ error' = ""
    /\ UNCHANGED <<config, _aggregated_gradients, pc, result, gradients,
                   tfLocals, xlaLocals, calls, counters, completed>>

\* ---------------------------------------------------------- environment
\* the compiled-graph runtime runs the graph a request has returned, and the
\* collective engine completes one of its async ops; the ops complete in any
\* order
Complete ==
    /\ pc = "idle"
    /\ call \in {"get_gradients", "_aggregate_gradients"}
    /\ outcome = "returned"
    /\ \E h \in {calls[k].idx : k \in {j \in 1..Len(calls) :
                                          calls[j].op = "push_pull_xla"}} :
          /\ h \notin completed
          /\ completed' = completed \cup {h}
    /\ UNCHANGED <<config, _aggregated_gradients, control, gradients,
                   tfLocals, xlaLocals, calls, counters, inner_applied>>

\* the module attribute enable_xla is reassigned after construction
SetEnableXla ==
    /\ \E v \in {"0", "1"} : v # enable_xla /\ enable_xla' = v
    /\ UNCHANGED <<_push_pull, _sparse_as_dense, bps_size,
                   _aggregated_gradients, control, gradients, tfLocals,
                   xlaLocals, calls, counters, completed, inner_applied>>

Next ==
    \/ get_gradients
    \/ _aggregate_gradients
    \/ TfStep
    \/ TfReturn
    \/ XlaLaunch
    \/ XlaZip
    \/ XlaBarrier
    \/ XlaBind
    \/ XlaDecompress
    \/ XlaReturn
    \/ apply_gradients
    \/ Complete
    \/ SetEnableXla

Spec == Init /\ [][Next]_vars

SpecCounted == InitCounted /\ [][Next]_vars

\* =================================================================
\* Properties
\* =================================================================
Aggregating == call \in {"get_gradients", "_aggregate_gradients"}

\* the aggregation call most recently made has ended
Finished == pc = "idle" /\ Aggregating

NonNone(gs) == {i \in 1..Len(gs) : gs[i] # None}

IsLaunch(c) == c.op \in {"push_pull", "push_pull_xla"}
IsAsync(c) == c.op = "push_pull_xla"
IsBarrier(c) == c.op = "barrier"
IsBind(c) == c.op = "sync"

Launches == SelectSeq(calls, IsLaunch)

\* the positions of the non-None entries of gs, in list order
IsGiven(g) == g # None
Positions(gs) ==
    LET given == SelectSeq(gs, IsGiven) IN
    [k \in 1..Len(given) |-> given[k].param]

IsPrefix(a, b) == Len(a) <= Len(b) /\ \A k \in 1..Len(a) : a[k] = b[k]

\* the handles of the async ops the current request has launched
LaunchedHandles ==
    {calls[k].idx : k \in {j \in 1..Len(calls) : IsAsync(calls[j])}}

Direct == _push_pull = "tf"
Accelerated == _push_pull = "xla"

\* C1: direct mode, group size > 1: the aggregator returns for every list
\* unless a collective call fails, the returned list is as long as the input,
\* it is None exactly where the input is None, and the result at a non-None
\* position is that of the gradient at the same position.
C1_DirectKeepsShape ==
    (Finished /\ Direct /\ bps_size > 1) =>
        /\ outcome = "raised" => error = "CollectiveFailure"
        /\ outcome = "returned" =>
            /\ Len(result) = Len(gradients)
            /\ \A i \in 1..Len(gradients) :
                /\ result[i] = None <=> gradients[i] = None
                /\ gradients[i] # None =>
                       result[i].param = gradients[i].param

C1_Witness ==
    /\ Finished /\ Direct /\ bps_size > 1 /\ outcome = "returned"
    /\ Len(gradients) = 3
    /\ gradients[1] # None /\ gradients[2] = None /\ gradients[3] # None
    /\ result[2] = None

\* C2: accelerated mode, group size > 1: unless a collective call fails the
\* request returns, for every list (None positions or not, empty or not), a
\* list as long as the input that is None exactly where the input is None.
C2_AcceleratedKeepsShape ==
    (Finished /\ Accelerated /\ bps_size > 1 /\ error # "CollectiveFailure") =>
        /\ outcome = "returned"
        /\ Len(result) = Len(gradients)
        /\ \A i \in 1..Len(gradients) :
               result[i] = None <=> gradients[i] = None

\* C3: group size <= 1, either mode: the aggregation call issues no
\* collaborator call at all and returns the list it was given.
C3_SingleWorkerIsNoOp ==
    (bps_size <= 1) =>
        /\ calls = <<>>
        /\ Finished => (outcome = "returned" /\ result = gradients)

C3_Witness ==
    /\ Finished /\ Accelerated /\ bps_size = 1 /\ _sparse_as_dense
    /\ Len(gradients) = 3
    /\ gradients[1].form = "sparse" /\ gradients[2] = None
    /\ result = gradients /\ calls = <<>>

\* C4: an apply_gradients call made while no aggregation call has been made
\* on the wrapper (nothing was called yet, or only apply_gradients calls that
\* failed) raises the configuration error and does not run the inner update;
\* an apply_gradients call made after an aggregation call runs the inner
\* update and returns.
NoAggregationYet ==
    \/ call = "none"
    \/ call = "apply_gradients" /\ outcome = "raised"

C4_ApplyNeedsAggregation ==
    [][(pc = "idle" /\ call' = "apply_gradients") =>
          IF NoAggregationYet
          THEN outcome' = "raised" /\ error' = "ConfigError" /\ ~inner_applied'
          ELSE outcome' = "returned" /\ inner_applied']_vars

C4_Witness ==
    /\ call = "apply_gradients" /\ outcome = "returned" /\ inner_applied
    /\ gradients # <<>>

\* C5: accelerated mode, group size > 1: every request whose collective
\* calls do not fail calls the barrier primitive exactly once, with as many
\* handles as the input has non-None gradients.
C5_OneBarrierOverAllHandles ==
    (Finished /\ Accelerated /\ bps_size > 1 /\ error # "CollectiveFailure") =>
        LET barriers == SelectSeq(calls, IsBarrier) IN
        /\ Len(barriers) = 1
        /\ barriers[1].n = Cardinality(NonNone(gradients))

\* C6: accelerated mode: every non-None tensor the request returns is bound
\* to the barrier over all async handles the request launched, so it is
\* readable only when every async op of the request has completed.
C6_NoPartialCompletionLeaks ==
    (Finished /\ Accelerated /\ bps_size > 1 /\ outcome = "returned") =>
        \A i \in 1..Len(result) :
            result[i] # None =>
                /\ result[i].barrier = LaunchedHandles
                /\ result[i].idx \in LaunchedHandles
                /\ Readable(result[i]) => LaunchedHandles \subseteq completed

C6_Witness ==
    /\ Finished /\ Accelerated /\ bps_size > 1 /\ outcome = "returned"
    /\ Len(result) >= 2
    /\ completed # {} /\ completed # LaunchedHandles
    /\ \A i \in 1..Len(result) : ~Readable(result[i])

\* C7: accelerated mode, group size > 1: for every request whose collective
\* calls do not fail, the indices passed to the async launches and the
\* indices passed to the bind-to-barrier calls are both the 1-based original
\* positions of the non-None gradients, in order (so no two are equal).
C7_IndicesAreOriginalPositions ==
    (Finished /\ Accelerated /\ bps_size > 1 /\ error # "CollectiveFailure") =>
        LET asyncs == SelectSeq(calls, IsAsync)
            binds == SelectSeq(calls, IsBind) IN
        /\ [k \in 1..Len(asyncs) |-> asyncs[k].idx] = Positions(gradients)
        /\ [k \in 1..Len(binds) |-> binds[k].idx] = Positions(gradients)
        /\ \A k \in 1..Len(binds) : binds[k].param = binds[k].idx

\* C8: group size > 1, either mode: the collective launches of a request are
\* at every moment a prefix of the non-None positions in list order, and all
\* of them once the request has ended without a collective failure; the
\* sequence depends on the None pattern only.
C8_LaunchesInParameterOrder ==
    (Aggregating /\ bps_size > 1) =>
        LET launched == [k \in 1..Len(Launches) |-> Launches[k].param] IN
        /\ IsPrefix(launched, Positions(gradients))
        /\ (Finished /\ error # "CollectiveFailure") =>
               launched = Positions(gradients)

C8_Witness ==
    /\ Finished /\ Accelerated /\ bps_size > 1
    /\ Len(gradients) = 3
    /\ gradients[1] # None /\ gradients[2] = None /\ gradients[3] # None
    /\ Len(Launches) = 2

\* C9: direct mode, group size > 1: the result at a non-None position i is
\* the averaged tensor of the push_pull call issued for the gradient at
\* position i.
C9_DirectResultPerPosition ==
    (Finished /\ Direct /\ bps_size > 1 /\ outcome = "returned") =>
        \A i \in NonNone(gradients) :
            /\ i <= Len(result)
            /\ result[i].stage = "averaged"
            /\ result[i].param = i
            /\ \E k \in 1..Len(calls) :
                  /\ calls[k].op = "push_pull"
                  /\ calls[k].param = i
                  /\ calls[k].form = result[i].form

C9_Witness ==
    /\ Finished /\ Direct /\ bps_size > 1 /\ outcome = "returned"
    /\ Len(gradients) = 3 /\ NonNone(gradients) = {1, 2, 3}
    /\ gradients[2].form = "sparse" /\ gradients[3].form = "dense"
    /\ Len(result) = 3

\* C10: with a counting client and group size > 1, after k aggregation calls
\* that all had the same list with m non-None gradients the client has
\* received k*m collective launches and, in accelerated mode, k barrier
\* calls.
C10_CallsScaleLinearly ==
    (counting /\ pc = "idle" /\ requests >= 1 /\ sameInput /\ bps_size > 1) =>
        /\ nLaunch = requests * Cardinality(NonNone(gradients))
        /\ Accelerated => nBarrier = requests

IsDecompress(c) == c.op = "decompress"

\* C11: accelerated mode: in the calls of one request no async push-pull
\* comes after the barrier call, the barrier call comes when an async
\* push-pull has been issued for every non-None gradient and takes all their
\* handles, every bind-to-barrier call comes after the barrier call, and
\* every decompress call comes after the bind of the same tensor.
C11_AcceleratedCallOrder ==
    (Aggregating /\ Accelerated) =>
        \A k \in 1..Len(calls) :
            /\ IsBarrier(calls[k]) =>
                /\ \A j \in 1..Len(calls) : IsAsync(calls[j]) => j < k
                /\ k - 1 = Cardinality(NonNone(gradients))
                /\ calls[k].n = k - 1
            /\ IsBind(calls[k]) =>
                  \E j \in 1..(k - 1) : IsBarrier(calls[j]) /\ calls[j].ok
            /\ IsDecompress(calls[k]) =>
                  \E j \in 1..(k - 1) :
                      IsBind(calls[j]) /\ calls[j].param = calls[k].param

C11_Witness ==
    /\ Finished /\ Accelerated /\ outcome = "returned"
    /\ Len(gradients) = 3
    /\ Len(calls) = 10
    /\ IsBarrier(calls[4]) /\ IsBind(calls[5]) /\ IsDecompress(calls[10])

\* C12: accelerated mode: every returned tensor was decompressed with the
\* context, and bound under the name, that the async launch of that same
\* gradient produced, and the returned tensors are in launch order.
C12_ContextOfTheSameLaunch ==
    (Finished /\ Accelerated /\ bps_size > 1 /\ outcome = "returned") =>
        /\ Len(result) = Len(SelectSeq(calls, IsAsync))
        /\ \A i \in 1..Len(result) :
            /\ result[i].stage = "decoded"
            /\ result[i].ctx = result[i].idx
            /\ result[i].name = result[i].idx
            /\ result[i].idx = SelectSeq(calls, IsAsync)[i].idx
            /\ result[i].param = SelectSeq(calls, IsAsync)[i].param

C12_Witness ==
    /\ Finished /\ Accelerated /\ bps_size > 1 /\ outcome = "returned"
    /\ Len(result) = 3
    /\ result[1].ctx = 1 /\ result[2].ctx = 2 /\ result[3].ctx = 3
    /\ gradients[1].form = "sparse" /\ gradients[2].form = "dense"

\* C13: direct mode: no gradient has more than one push-pull call in a
\* request, and when a push-pull call has failed it is the last call of the
\* request, the request has ended by raising that failure and no list is
\* returned.
C13_DirectFailurePropagates ==
    (Aggregating /\ Direct) =>
        /\ \A j, k \in 1..Len(calls) :
               j # k => calls[j].param # calls[k].param
        /\ \A k \in 1..Len(calls) :
               ~calls[k].ok =>
                   /\ k = Len(calls)
                   /\ pc = "idle" /\ outcome = "raised"
                   /\ error = "CollectiveFailure"
                   /\ result = <<>>

C13_Witness ==
    /\ Finished /\ Direct /\ outcome = "raised"
    /\ Len(gradients) = 3 /\ gradients[3] # None
    /\ Len(calls) = 2 /\ calls[1].ok /\ ~calls[2].ok

\* C14: accelerated mode: when an async push-pull has failed to launch it is
\* the last call of the request, the request has ended by raising that
\* failure, and the calls of the request are async launches only: no barrier,
\* bind or decompress call, and nothing that undoes the earlier launches.
C14_AcceleratedLaunchFailure ==
    (Aggregating /\ Accelerated) =>
        \A k \in 1..Len(calls) :
            (IsAsync(calls[k]) /\ ~calls[k].ok) =>
                /\ k = Len(calls)
                /\ pc = "idle" /\ outcome = "raised"
                /\ error = "CollectiveFailure"
                /\ result = <<>>
                /\ \A j \in 1..(k - 1) : IsAsync(calls[j]) /\ calls[j].ok

C14_Witness ==
    /\ Finished /\ Accelerated /\ outcome = "raised"
    /\ error = "CollectiveFailure"
    /\ Len(gradients) = 3 /\ gradients[3] # None
    /\ Len(calls) = 2 /\ calls[1].ok /\ IsAsync(calls[2]) /\ ~calls[2].ok

\* C15: the aggregation-occurred flag is false on a fresh wrapper, no step
\* ever takes it from true to false, an apply_gradients call leaves it as it
\* is, and once it is true every apply_gradients call runs the inner update.
C15_FlagIsMonotonic ==
    /\ ~_aggregated_gradients
    /\ [][/\ _aggregated_gradients => _aggregated_gradients'
          /\ (pc = "idle" /\ call' = "apply_gradients") =>
                /\ _aggregated_gradients' = _aggregated_gradients
                /\ _aggregated_gradients =>
                       (outcome' = "returned" /\ inner_applied')]_vars

C15_Witness ==
    /\ _aggregated_gradients
    /\ call = "apply_gradients" /\ outcome = "returned" /\ inner_applied
    /\ Len(gradients) = 3

\* C16: the aggregator of a wrapper is the one its constructor chose from
\* the execution-mode flag; it never changes, and every aggregation call runs
\* that aggregator whatever value the flag has at the time of the call.
RunsDirect ==
    \/ pc = "tf_loop"
    \/ \E k \in 1..Len(calls) : calls[k].op = "push_pull"

RunsAccelerated ==
    \/ pc \in {"xla_launch", "xla_barrier", "xla_bind", "xla_decompress",
               "xla_return"}
    \/ \E k \in 1..Len(calls) : calls[k].op # "push_pull"

C16_ModeChosenOnce ==
    /\ (_push_pull = "xla") <=> (enable_xla = "1")
    /\ [](RunsDirect => Direct)
    /\ [](RunsAccelerated => Accelerated)
    /\ [][_push_pull' = _push_pull]_vars

C16_Witness ==
    /\ Finished /\ Direct /\ enable_xla = "1"
    /\ outcome = "returned" /\ Len(calls) = 3
    /\ \A k \in 1..Len(calls) : calls[k].op = "push_pull"

\* C17: group size > 1, either mode: the tensor handed to the collective
\* launch of a gradient is dense and converted exactly when the
\* sparse-as-dense flag is set and the gradient is sparse, and is the
\* gradient as given otherwise; None entries stay None; there is one launch
\* per non-None gradient, in list order, whatever the flag.
Densified(g) == _sparse_as_dense /\ g.form = "sparse"

C17_DensifyOnlySparseWhenAsked ==
    (Aggregating /\ bps_size > 1) =>
        /\ \A k \in 1..Len(Launches) :
               LET g == gradients[Launches[k].param] IN
               /\ k <= Len(Positions(gradients))
               /\ Launches[k].param = Positions(gradients)[k]
               /\ Launches[k].form = IF Densified(g) THEN "dense" ELSE g.form
        /\ Accelerated =>
               /\ Len(grads) = Len(gradients)
               /\ \A i \in 1..Len(grads) :
                      grads[i] = IF Densified(gradients[i])
                                 THEN convert_to_tensor(gradients[i])
                                 ELSE gradients[i]
        /\ (Finished /\ outcome = "returned") =>
               \A i \in NonNone(gradients) :
                   result[i].conv = Densified(gradients[i])

C17_Witness ==
    /\ Finished /\ Accelerated /\ bps_size > 1 /\ _sparse_as_dense
    /\ outcome = "returned"
    /\ Len(gradients) = 3
    /\ gradients[1].form = "sparse" /\ gradients[2].form = "dense"
    /\ Launches[1].form = "dense" /\ result[1].conv /\ ~result[2].conv

\* C18: the flag is true from the entry of an aggregation call on: while
\* the call runs, after it has returned without any collaborator call (group
\* size 1, empty list) and after it has raised; an apply_gradients call that
\* follows an aggregation call, however that call ended, runs the inner
\* update.
C18_FlagSetAtEntry ==
    /\ [](Aggregating => _aggregated_gradients)
    /\ [](calls # <<>> => _aggregated_gradients)
    /\ [][(Finished /\ call' = "apply_gradients") =>
             (outcome' = "returned" /\ inner_applied')]_vars

C18_Witness ==
    /\ call = "apply_gradients" /\ outcome = "returned" /\ inner_applied
    /\ result = <<>>
    /\ \E k \in 1..Len(calls) : ~calls[k].ok

\* C19: accelerated mode, group size > 1, no collective failure: a request
\* returns exactly when its list is non-empty and has no None; otherwise it
\* raises (TypeError with a None, IndexError when empty) after an async
\* launch for every non-None gradient and without any barrier, bind or
\* decompress call.
C19_AcceleratedRaisesOnNone ==
    (Finished /\ Accelerated /\ bps_size > 1 /\ error # "CollectiveFailure") =>
        IF Len(gradients) > 0 /\ NonNone(gradients) = 1..Len(gradients)
        THEN outcome = "returned"
        ELSE /\ outcome = "raised"
             /\ error = IF Len(gradients) = 0 THEN "IndexError" ELSE "TypeError"
             /\ Len(calls) = Cardinality(NonNone(gradients))
             /\ \A k \in 1..Len(calls) :
                    /\ IsAsync(calls[k]) /\ calls[k].ok
                    /\ calls[k].idx = Positions(gradients)[k]

C19_Witness ==
    /\ Finished /\ Accelerated /\ bps_size > 1
    /\ outcome = "raised" /\ error = "TypeError"
    /\ Len(gradients) = 3
    /\ gradients[1] # None /\ gradients[2] = None /\ gradients[3] # None
    /\ Len(calls) = 2 /\ calls[2].idx = 3

====
